---------------------------- MODULE Spec2Model ----------------------------
(***************************************************************************)
(* Model of the docopt! macro expander (docopt_macros/src/macro.rs).       *)
(*                                                                         *)
(* One behaviour of the model is one macro invocation: the host parser     *)
(* hands the expander its tokens one at a time, MacParser::parse walks the *)
(* invocation grammar, Docopt::new validates the usage text, and           *)
(* Parsed::items synthesises the struct and its docopt() factory.          *)
(*                                                                         *)
(* The token stream is drawn lazily: every bump of the host parser draws   *)
(* the next token.  `toks` keeps the tokens already bumped and `token` is  *)
(* the parser's current token, so Stream is everything the parser has      *)
(* looked at.  Every position may hold punctuation, a string literal or    *)
(* end of input; identifiers are offered by class (struct names, the       *)
(* deriving keyword and its misspelling, trait names, field names, type    *)
(* names), and the keyword `pub` is offered wherever the host parser reads *)
(* an identifier: struct name, deriving keyword, trait names and override  *)
(* field names (parse_ident), the usage expression (parse_expr reads a     *)
(* path) and override types (parse_ty reads a path).  Where parse_ident    *)
(* meets a keyword the host parser reports a non-fatal error and takes the *)
(* keyword as the identifier; on any other token it reports a fatal error  *)
(* and unwinds.                                                            *)
(***************************************************************************)
EXTENDS Naturals, Sequences, FiniteSets

VARIABLES
    token,            \* self.p.token: the host parser's current token
    toks,             \* the tokens bumped so far, in order
    pc,               \* position of the expander in expand/parse/items
    stages,           \* the stages of parse that have completed, in order
    struct_info,      \* StructInfo {name, public, deriving}
    docstr,           \* the string returned by parse_str
    first,            \* the `first` flag of parse_seq_to_end
    cur_ident,        \* the identifier of the annotation being parsed
    anns,             \* the (ident, ty) pairs parse_seq_to_end has collected
    types,            \* Parsed.types: HashMap<Atom, Ty>
    doc,              \* Parsed.doc: the validated usage descriptor
    diags,            \* the diagnostics emitted, in order
    validator_calls,  \* number of calls of Docopt::new during expansion
    idx,              \* position of the struct_fields loop in descs
    fields,           \* the `fields` vector of struct_fields
    inferred,         \* the atoms pat_type has been invoked for
    its,              \* the `its` vector of items
    result,           \* what expand returned
    runtime           \* outcome of calling the generated docopt() factory

vars == <<token, toks, pc, stages, struct_info, docstr, first, cur_ident,
          anns, types, doc, diags, validator_calls, idx, fields, inferred,
          its, result, runtime>>

---------------------------------------------------------------------------
(* Bounds of the model.                                                    *)

MaxDeriving == 2
MaxOverrides == 1
MaxAtoms == 2

---------------------------------------------------------------------------
(* Tokens.                                                                 *)

Ident(n) == [k |-> "ident", v |-> n]
Str(t) == [k |-> "str", v |-> t]
Num == [k |-> "num", v |-> "42"]
Comma == [k |-> "comma", v |-> ","]
Colon == [k |-> "colon", v |-> ":"]
Semi == [k |-> "semi", v |-> ";"]
Pub == [k |-> "pub", v |-> "pub"]
Eof == [k |-> "eof", v |-> ""]

NameIdents == {"Args"}
KwIdents == {"deriving", "derivng"}
TraitIdents == {"Foo", "RustcDecodable"}
FieldIdents == {"flag_verbose", "flag_x"}
TypeIdents == {"int"}
NoIdents == {}

UsageProg == "Usage: prog"
UsageVerboseFile == "Usage: prog [--verbose] <file>"
UsageBroken == "prog [--verbose"
Texts == {UsageProg, UsageVerboseFile, UsageBroken}

Punct == {Comma, Colon, Semi}
Lits == {Str(t) : t \in Texts} \cup {Num}

\* The tokens the stream may hold at a position where identifiers of class
\* cls are of interest; one string literal stands for the literals.
Draw(cls) ==
    Punct \cup {Str(UsageProg)} \cup {Ident(n) : n \in cls} \cup {Eof}

\* The tokens the stream may hold where the host parser reads an identifier
\* of class cls (parse_ident, directly or for the one segment of a path):
\* the keyword stands wherever an identifier may.
DrawIdent(cls) == Draw(cls) \cup (IF cls = {} THEN {} ELSE {Pub})

\* The tokens the stream may hold where the usage expression is expected.
DrawExpr == DrawIdent(KwIdents) \cup Lits

\* A strict keyword: check_strict_keywords of the host parser reports it
\* where an identifier is read, without stopping the parse.
IsKeyword(t) == t.k = "pub"

\* The tokens parse_ident returns an identifier for: keywords are
\* identifier tokens too.
IsIdent(t) == t.k = "ident" \/ IsKeyword(t)

---------------------------------------------------------------------------
(* Atoms, options and the collaborators of the docopt crate.               *)

Positional(key) == [kind |-> "Positional", key |-> key]
Option(key) == [kind |-> "Option", key |-> key]
Command(key) == [kind |-> "Command", key |-> key]

Desc(atom, repeats, arg) == [atom |-> atom, repeats |-> repeats, arg |-> arg]

NoDoc == [descs |-> <<>>, full_doc |-> ""]

\* Docopt::new: the usage validator.  Accepted texts yield the ordered
\* atom -> options mapping and keep the text as full_doc.
Validate(text) ==
    IF text = UsageProg
      THEN [ok |-> TRUE, doc |-> [descs |-> <<>>, full_doc |-> text]]
    ELSE IF text = UsageVerboseFile
      THEN [ok |-> TRUE,
            doc |-> [descs |-> << Desc(Option("--verbose"), FALSE, "Zero"),
                                  Desc(Positional("<file>"), FALSE, "Zero") >>,
                     full_doc |-> text]]
    ELSE [ok |-> FALSE, doc |-> NoDoc]

\* ArgvMap::key_to_struct_field: usage key -> field identifier.
key_to_struct_field(key) ==
    CASE key = "--verbose" -> "flag_verbose"
      [] key = "-v" -> "flag_v"
      [] key = "-x" -> "flag_x"
      [] key = "<file>" -> "arg_file"
      [] key = "add" -> "cmd_add"
      [] OTHER -> "cmd_"

\* ArgvMap::struct_field_to_key: field identifier -> usage key.
struct_field_to_key(name) ==
    CASE name = "flag_verbose" -> "--verbose"
      [] name = "flag_v" -> "-v"
      [] name = "flag_x" -> "-x"
      [] name = "arg_file" -> "<file>"
      [] name = "cmd_add" -> "add"
      [] OTHER -> ""

\* Atom::new: classifies a usage key.
AtomNew(key) ==
    CASE key \in {"--verbose", "-v", "-x"} -> Option(key)
      [] key \in {"<file>"} -> Positional(key)
      [] OTHER -> Command(key)

---------------------------------------------------------------------------
(* Parsed::pat_type, the type inferencer.                                  *)

TyBool == "bool"
TyString == "String"
TyUint == "uint"
TyVecString == "Vec<String>"

\* A type inferencer that forgets the atom kind when the atom takes no value.
pat_type_kindless(atom, opts) ==
    CASE opts.repeats = FALSE /\ opts.arg = "Zero" -> TyBool
      [] opts.repeats = TRUE /\ opts.arg = "Zero" -> TyUint
      [] opts.repeats = FALSE /\ opts.arg = "One" -> TyString
      [] opts.repeats = TRUE /\ opts.arg = "One" -> TyVecString

pat_type(atom, opts) ==
    CASE opts.repeats = FALSE /\ opts.arg = "Zero" ->
           IF atom.kind = "Positional" THEN TyString ELSE TyBool
      [] opts.repeats = TRUE /\ opts.arg = "Zero" ->
           IF atom.kind = "Positional" THEN TyVecString ELSE TyUint
      [] opts.repeats = FALSE /\ opts.arg = "One" -> TyString
      [] opts.repeats = TRUE /\ opts.arg = "One" -> TyVecString

mk_struct_field(name, ty) == [name |-> name, ty |-> ty, vis |-> "Public"]


\* Lines 106-109 of struct_fields with the override lookup dropped: the
\* inferencer decides every field.
field_ty_ignores_override(tys, atom, opts) ==
    [ty |-> pat_type(atom, opts), inferred |-> TRUE]

\* Lines 106-109 with a lookup that falls back on any supplied override.
field_ty_any_override(tys, atom, opts) ==
    IF atom \in DOMAIN tys
      THEN [ty |-> tys[atom], inferred |-> FALSE]
    ELSE IF DOMAIN tys # {}
      THEN [ty |-> tys[CHOOSE a \in DOMAIN tys : TRUE], inferred |-> FALSE]
    ELSE [ty |-> pat_type(atom, opts), inferred |-> TRUE]

\* The match of struct_fields: the override when the map has the atom,
\* the inferred type otherwise; `inferred` tells whether pat_type ran.
field_ty(tys, atom, opts) ==
    IF atom \in DOMAIN tys
      THEN [ty |-> tys[atom], inferred |-> FALSE]
      ELSE [ty |-> pat_type(atom, opts), inferred |-> TRUE]

\* fields.insert(0, ..) instead of fields.push(..).
push_field_front(fs, name, ty) == <<mk_struct_field(name, ty)>> \o fs

push_field(fs, name, ty) == Append(fs, mk_struct_field(name, ty))

\* A capability list that leaves the decoding trait to the user's list
\* when the user already wrote it.
struct_traits_dedup(deriving) ==
    IF \E i \in DOMAIN deriving : deriving[i] = "RustcDecodable"
      THEN deriving
      ELSE <<"RustcDecodable">> \o deriving

\* struct_decl: the deriving attribute of the generated struct.
struct_traits(deriving) == <<"RustcDecodable">> \o deriving

\* A factory text re-rendered from the parsed atoms instead of full_doc.
factory_doc_rerendered(d) == "prog"

\* items: the text handed to docopt::Docopt::new in the generated factory.
factory_doc(d) == d.full_doc

\* The override key of one annotation (the closure of parse).
OverrideKey(a) == AtomNew(struct_field_to_key(a.ident))

\* collect::<HashMap<Atom, Ty>>: a later entry replaces an earlier one.
collect(as) ==
    [atom \in {OverrideKey(as[i]) : i \in DOMAIN as} |->
        as[CHOOSE i \in DOMAIN as :
              /\ OverrideKey(as[i]) = atom
              /\ \A j \in DOMAIN as : OverrideKey(as[j]) = atom => j <= i].ty]

---------------------------------------------------------------------------
(* The host parser.                                                        *)

parseVars == <<struct_info, docstr, first, cur_ident, anns, types, doc,
               validator_calls>>
synthVars == <<idx, fields, inferred, its>>
outVars == <<result, runtime>>

\* Parser::bump: the current token is consumed and the next one is read;
\* at end of input the reader keeps yielding Eof.
Bump(next) ==
    /\ toks' = IF token = Eof THEN toks ELSE Append(toks, token)
    /\ token' \in IF token = Eof THEN {Eof} ELSE next

\* The identifiers offered where another override entry may start.
CapFields(n) == IF n < MaxOverrides THEN FieldIdents ELSE NoIdents

\* The identifiers offered where another trait name may stand.
CapTraits(n) == IF n < MaxDeriving THEN TraitIdents ELSE NoIdents

\* Parser::fatal: the diagnostic is emitted and the expander unwinds;
\* expand does not return.
Fatal ==
    /\ diags' = Append(diags, "UnexpectedToken")
    /\ pc' = "unwound"
    /\ UNCHANGED <<token, toks, stages, parseVars, synthVars, outVars>>

\* The diagnostics after the host parser has read the current token as an
\* identifier: "expected identifier, found keyword" for a keyword.
IdentDiags ==
    IF IsKeyword(token) THEN Append(diags, "KeywordAsIdentifier") ELSE diags

Stream == Append(toks, token)

NoResult == [kind |-> "none", items |-> <<>>]
Placeholder == [kind |-> "placeholder", items |-> <<>>]
NoStructInfo == [name |-> "", public |-> FALSE, deriving |-> <<>>]

---------------------------------------------------------------------------
(* MacParser::parse.                                                       *)

\* parse: the empty-input check.
ParseBegin ==
    /\ pc = "start"
    /\ IF token = Eof
         THEN /\ diags' = Append(diags, "MissingArgument")
              /\ pc' = "ret_err"
              /\ UNCHANGED stages
         ELSE /\ pc' = "vis"
              /\ stages' = Append(stages, "empty_check")
              /\ UNCHANGED diags
    /\ UNCHANGED <<token, toks, parseVars, synthVars, outVars>>

\* parse_struct_info: eat_keyword(Pub).
EatPub ==
    /\ pc = "vis"
    /\ IF token = Pub
         THEN /\ Bump(DrawIdent(NameIdents))
              /\ struct_info' = [struct_info EXCEPT !.public = TRUE]
         ELSE /\ struct_info' = [struct_info EXCEPT !.public = FALSE]
              /\ UNCHANGED <<token, toks>>
    /\ pc' = "name"
    /\ UNCHANGED <<stages, docstr, first, cur_ident, anns, types, doc,
                   validator_calls, diags, synthVars, outVars>>

\* parse_struct_info: the struct name.
ParseName ==
    /\ pc = "name"
    /\ IF IsIdent(token)
         THEN /\ struct_info' = [struct_info EXCEPT !.name = token.v]
              /\ Bump(DrawIdent(KwIdents))
              /\ diags' = IdentDiags
              /\ pc' = "meta_sep"
              /\ UNCHANGED <<stages, docstr, first, cur_ident, anns, types,
                             doc, validator_calls, synthVars, outVars>>
         ELSE Fatal

\* parse_struct_info without the comparison with "deriving": any identifier
\* after the struct name opens the trait list.
MetaSepOrKeywordUnchecked ==
    /\ pc = "meta_sep"
    /\ IF token = Comma
         THEN /\ Bump(DrawExpr)
              /\ pc' = "str"
              /\ stages' = Append(stages, "struct_info")
              /\ UNCHANGED <<parseVars, diags, synthVars, outVars>>
         ELSE IF IsIdent(token)
           THEN /\ Bump(DrawIdent(CapTraits(0)))
                /\ diags' = IdentDiags
                /\ pc' = "traits"
                /\ UNCHANGED <<stages, parseVars, synthVars, outVars>>
           ELSE Fatal

\* parse_struct_info: the separator ending the metadata, or the deriving
\* keyword.
MetaSepOrKeyword ==
    /\ pc = "meta_sep"
    /\ IF token = Comma
         THEN /\ Bump(DrawExpr)
              /\ pc' = "str"
              /\ stages' = Append(stages, "struct_info")
              /\ UNCHANGED <<parseVars, diags, synthVars, outVars>>
         ELSE IF IsIdent(token)
           THEN /\ Bump(DrawIdent(CapTraits(0)))
                /\ IF token.v # "deriving"
                     THEN /\ diags' = Append(IdentDiags, "InvalidTraitKeyword")
                          /\ pc' = "ret_err"
                     ELSE /\ pc' = "traits"
                          /\ diags' = IdentDiags
                /\ UNCHANGED <<stages, parseVars, synthVars, outVars>>
           ELSE Fatal

\* parse_struct_info: the loop over the trait names.
ParseTrait ==
    /\ pc = "traits"
    /\ IF token = Comma
         THEN /\ Bump(DrawExpr)
              /\ pc' = "str"
              /\ stages' = Append(stages, "struct_info")
              /\ UNCHANGED <<parseVars, diags, synthVars, outVars>>
         ELSE IF IsIdent(token)
           THEN /\ struct_info' =
                     [struct_info EXCEPT !.deriving = Append(@, token.v)]
                /\ Bump(DrawIdent(
                       CapTraits(Len(struct_info.deriving) + 1)))
                /\ diags' = IdentDiags
                /\ UNCHANGED <<pc, stages, docstr, first, cur_ident, anns,
                               types, doc, validator_calls, synthVars,
                               outVars>>
           ELSE Fatal

\* parse_str: parse_expr, the expansion and the match on the literal.  An
\* identifier is a path expression, whose segment parse_ident reads.
ParseStrExpr ==
    /\ pc = "str"
    /\ IF token.k = "str"
         THEN /\ docstr' = token.v
              /\ Bump(Draw(FieldIdents))
              /\ pc' = "str_bump"
              /\ UNCHANGED <<stages, struct_info, first, cur_ident, anns,
                             types, doc, validator_calls, diags, synthVars,
                             outVars>>
         ELSE IF token.k = "num" \/ IsIdent(token)
           THEN /\ Bump(Draw(TraitIdents))
                /\ diags' = Append(IdentDiags, "NotAStringLiteral")
                /\ pc' = "ret_err"
                /\ UNCHANGED <<stages, parseVars, synthVars, outVars>>
           ELSE Fatal

\* parse_str: the bump after the literal.
ParseStrBump ==
    /\ pc = "str_bump"
    /\ Bump(DrawIdent(CapFields(0)))
    /\ pc' = "seq"
    /\ stages' = Append(stages, "usage_str")
    /\ UNCHANGED <<parseVars, diags, synthVars, outVars>>

\* parse_seq_to_end: the loop test and the separator before every element
\* but the first.
SeqSep ==
    /\ pc = "seq"
    /\ IF token = Eof
         THEN /\ pc' = "seq_end"
              /\ UNCHANGED <<token, toks, stages, parseVars, diags,
                             synthVars, outVars>>
         ELSE IF first
           THEN /\ first' = FALSE
                /\ pc' = "ann_ident"
                /\ UNCHANGED <<token, toks, stages, struct_info, docstr,
                               cur_ident, anns, types, doc, validator_calls,
                               diags, synthVars, outVars>>
           ELSE IF token = Comma
             THEN /\ Bump(DrawIdent(CapFields(Len(anns))))
                  /\ pc' = "ann_ident"
                  /\ UNCHANGED <<stages, parseVars, diags, synthVars,
                                 outVars>>
             ELSE Fatal

\* parse_seq_to_end: the trailing-separator test, then parse_type_annotation
\* reads the field identifier.
AnnIdent ==
    /\ pc = "ann_ident"
    /\ IF token = Eof
         THEN /\ pc' = "seq_end"
              /\ UNCHANGED <<token, toks, stages, parseVars, diags,
                             synthVars, outVars>>
         ELSE IF IsIdent(token)
           THEN /\ cur_ident' = token.v
                /\ Bump(Draw(NoIdents))
                /\ diags' = IdentDiags
                /\ pc' = "ann_colon"
                /\ UNCHANGED <<stages, struct_info, docstr, first, anns,
                               types, doc, validator_calls, synthVars,
                               outVars>>
           ELSE Fatal

\* parse_type_annotation: expect(Colon).
AnnColon ==
    /\ pc = "ann_colon"
    /\ IF token = Colon
         THEN /\ Bump(DrawIdent(TypeIdents))
              /\ pc' = "ann_ty"
              /\ UNCHANGED <<stages, parseVars, diags, synthVars, outVars>>
         ELSE Fatal

\* parse_type_annotation: parse_ty reads a type path, whose segment
\* parse_ident reads; the pair joins the sequence.
AnnTy ==
    /\ pc = "ann_ty"
    /\ IF IsIdent(token)
         THEN /\ anns' = Append(anns, [ident |-> cur_ident, ty |-> token.v])
              /\ Bump(Draw(NoIdents))
              /\ diags' = IdentDiags
              /\ pc' = "seq"
              /\ UNCHANGED <<stages, struct_info, docstr, first, cur_ident,
                             types, doc, validator_calls, synthVars,
                             outVars>>
         ELSE Fatal

\* parse: the end of parse_seq_to_end, the collect into the override map
\* and expect(Eof).
SeqEnd ==
    /\ pc = "seq_end"
    /\ IF token = Eof
         THEN /\ Bump(Draw(NoIdents))
              /\ types' = collect(anns)
              /\ pc' = "docopt"
              /\ stages' = Append(stages, "overrides")
              /\ UNCHANGED <<struct_info, docstr, first, cur_ident, anns,
                             doc, validator_calls, diags, synthVars, outVars>>
         ELSE Fatal

\* parse: Docopt::new(docstr).
DocoptNew ==
    /\ pc = "docopt"
    /\ validator_calls' = validator_calls + 1
    /\ IF Validate(docstr).ok
         THEN /\ doc' = Validate(docstr).doc
              /\ pc' = "ret_ok"
              /\ stages' = Append(stages, "validation")
              /\ UNCHANGED diags
         ELSE /\ diags' = Append(diags, "InvalidUsageSpecification")
              /\ pc' = "ret_err"
              /\ UNCHANGED <<doc, stages>>
    /\ UNCHANGED <<token, toks, struct_info, docstr, first, cur_ident, anns,
                   types, synthVars, outVars>>

---------------------------------------------------------------------------
(* expand and Parsed::items.                                               *)

\* expand: parse returned Err, the placeholder result is returned.
ExpandErr ==
    /\ pc = "ret_err"
    /\ result' = Placeholder
    /\ pc' = "done"
    /\ UNCHANGED <<token, toks, stages, parseVars, diags, synthVars, runtime>>

\* expand: parse returned Ok; items starts struct_decl, which starts
\* struct_fields.
StructDeclBegin ==
    /\ pc = "ret_ok"
    /\ its' = <<>>
    /\ fields' = <<>>
    /\ idx' = 1
    /\ pc' = "fields"
    /\ UNCHANGED <<token, toks, stages, parseVars, diags, inferred, outVars>>

\* struct_fields: one iteration of the loop over descs.
StructFieldsStep ==
    /\ pc = "fields"
    /\ idx <= Len(doc.descs)
    /\ LET opts == doc.descs[idx]
           atom == opts.atom
           name == key_to_struct_field(atom.key)
           sel == field_ty(types, atom, opts)
       IN /\ fields' = push_field(fields, name, sel.ty)
          /\ inferred' = IF sel.inferred THEN inferred \cup {atom}
                                         ELSE inferred
    /\ idx' = idx + 1
    /\ UNCHANGED <<token, toks, pc, stages, parseVars, diags, its, outVars>>

\* struct_decl: the struct item with its fields and attributes.
StructDeclEnd ==
    /\ pc = "fields"
    /\ idx > Len(doc.descs)
    /\ its' = Append(its, [item |-> "struct",
                           name |-> struct_info.name,
                           vis |-> IF struct_info.public THEN "Public"
                                                         ELSE "Inherited",
                           fields |-> fields,
                           traits |-> struct_traits(struct_info.deriving),
                           full_doc |-> ""])
    /\ pc' = "factory"
    /\ UNCHANGED <<token, toks, stages, parseVars, diags, idx, fields,
                   inferred, outVars>>

\* items: the impl item with the docopt() factory; expand returns the items.
ItemsFactory ==
    /\ pc = "factory"
    /\ its' = Append(its, [item |-> "impl",
                           name |-> struct_info.name,
                           vis |-> "Inherited",
                           fields |-> <<>>,
                           traits |-> <<>>,
                           full_doc |-> factory_doc(doc)])
    /\ result' = [kind |-> "items", items |-> its']
    /\ stages' = Append(stages, "synthesis")
    /\ pc' = "done"
    /\ UNCHANGED <<token, toks, parseVars, diags, idx, fields, inferred,
                   runtime>>

\* The generated factory: docopt::Docopt::new(full_doc).unwrap().
FactoryDocopt ==
    /\ pc = "done"
    /\ result.kind = "items"
    /\ runtime = "none"
    /\ runtime' = IF Validate(result.items[2].full_doc).ok THEN "ok"
                                                             ELSE "fault"
    /\ UNCHANGED <<token, toks, pc, stages, parseVars, diags, synthVars,
                   result>>

---------------------------------------------------------------------------
(* One macro invocation.                                                   *)

Init ==
    /\ token \in DrawIdent(NameIdents)
    /\ toks = <<>>
    /\ pc = "start"
    /\ stages = <<>>
    /\ struct_info = NoStructInfo
    /\ docstr = ""
    /\ first = TRUE
    /\ cur_ident = ""
    /\ anns = <<>>
    /\ types = <<>>
    /\ doc = NoDoc
    /\ diags = <<>>
    /\ validator_calls = 0
    /\ idx = 0
    /\ fields = <<>>
    /\ inferred = {}
    /\ its = <<>>
    /\ result = NoResult
    /\ runtime = "none"

Next ==
    \/ ParseBegin
    \/ EatPub
    \/ ParseName
    \/ MetaSepOrKeyword
    \/ ParseTrait
    \/ ParseStrExpr
    \/ ParseStrBump
    \/ SeqSep
    \/ AnnIdent
    \/ AnnColon
    \/ AnnTy
    \/ SeqEnd
    \/ DocoptNew
    \/ ExpandErr
    \/ StructDeclBegin
    \/ StructFieldsStep
    \/ StructDeclEnd
    \/ ItemsFactory
    \/ FactoryDocopt

Spec == Init /\ [][Next]_vars

---------------------------------------------------------------------------
(* The type inferencer over its whole domain: struct_fields applied to an  *)
(* arbitrary descriptor.                                                   *)

AtomDomain == {Positional("<file>"), Option("--verbose"), Command("add")}
DescDomain ==
    {Desc(a, r, g) : a \in AtomDomain, r \in BOOLEAN, g \in {"Zero", "One"}}

\* The descriptors of at most MaxAtoms atoms, no atom twice.
Descriptors ==
    {ds \in UNION {[1..n -> DescDomain] : n \in 1..MaxAtoms} :
        \A i, j \in DOMAIN ds : ds[i].atom = ds[j].atom => i = j}

InitInfer ==
    /\ token = Eof
    /\ toks = <<Ident("Args"), Comma, Str(UsageProg)>>
    /\ pc = "fields"
    /\ stages = <<"empty_check", "struct_info", "usage_str", "overrides",
                  "validation">>
    /\ struct_info = [NoStructInfo EXCEPT !.name = "Args"]
    /\ docstr = UsageProg
    /\ first = TRUE
    /\ cur_ident = ""
    /\ anns = <<>>
    /\ types \in {<<>>, [a \in {Option("--verbose")} |-> "int"]}
    /\ doc \in {[descs |-> ds, full_doc |-> UsageProg] : ds \in Descriptors}
    /\ diags = <<>>
    /\ validator_calls = 1
    /\ idx = 1
    /\ fields = <<>>
    /\ inferred = {}
    /\ its = <<>>
    /\ result = NoResult
    /\ runtime = "none"

NextInfer ==
    \/ StructFieldsStep
    \/ StructDeclEnd

SpecInfer == InitInfer /\ [][NextInfer]_vars

---------------------------------------------------------------------------
(* Vocabulary of the properties.                                           *)

IsPrefix(a, b) == Len(a) <= Len(b) /\ \A i \in DOMAIN a : a[i] = b[i]

Finished == pc \in {"done", "unwound"}
Succeeded == result.kind = "items"
ParsedOk == Len(stages) >= 5

\* The rule table of the type inferencer, row by row.
InferenceTable(repeats, arg, kind) ==
    CASE repeats = FALSE /\ arg = "Zero" /\ kind = "Positional" -> "String"
      [] repeats = FALSE /\ arg = "Zero" /\ kind \in {"Option", "Command"}
           -> "bool"
      [] repeats = TRUE /\ arg = "Zero" /\ kind = "Positional"
           -> "Vec<String>"
      [] repeats = TRUE /\ arg = "Zero" /\ kind \in {"Option", "Command"}
           -> "uint"
      [] repeats = FALSE /\ arg = "One" -> "String"
      [] repeats = TRUE /\ arg = "One" -> "Vec<String>"
      [] OTHER -> "none"

StageOrder == <<"empty_check", "struct_info", "usage_str", "overrides",
                "validation", "synthesis">>

\* The stages a diagnostic kind belongs to.
StagesOf(d) ==
    CASE d = "MissingArgument" -> {"empty_check"}
      [] d = "InvalidTraitKeyword" -> {"struct_info"}
      [] d = "NotAStringLiteral" -> {"usage_str"}
      [] d = "InvalidUsageSpecification" -> {"validation"}
      [] d = "UnexpectedToken" -> {"struct_info", "usage_str", "overrides"}
      [] d = "KeywordAsIdentifier"
           -> {"struct_info", "usage_str", "overrides"}
      [] OTHER -> {}

\* An identifier of the invocation grammar: no keyword.
IsPlainIdent(t) == t.k = "ident"

\* The stream without its visibility marker.
Unmarked(s) == IF s # <<>> /\ s[1] = Pub THEN Tail(s) ELSE s

\* No keyword stands in the stream after the visibility marker.
NoKeywordAsIdent(s) ==
    \A i \in DOMAIN Unmarked(s) : ~IsKeyword(Unmarked(s)[i])

\* The trait names written between the deriving keyword and the separator.
RECURSIVE TraitsUpToComma(_)
TraitsUpToComma(s) ==
    IF s = <<>> \/ ~IsIdent(s[1]) THEN <<>>
    ELSE <<s[1].v>> \o TraitsUpToComma(Tail(s))

WrittenTraits(s) ==
    LET u == Unmarked(s)
    IN IF Len(u) >= 2 /\ u[2] = Ident("deriving")
         THEN TraitsUpToComma(SubSeq(u, 3, Len(u)))
         ELSE <<>>

\* The invocation grammar after the usage string: override entries, each
\* preceded by a comma, an optional trailing comma, end of input.
RECURSIVE OverrideTail(_)
OverrideTail(s) ==
    \/ s = <<Eof>>
    \/ s = <<Comma, Eof>>
    \/ /\ Len(s) >= 5
       /\ s[1] = Comma
       /\ IsPlainIdent(s[2])
       /\ s[3] = Colon
       /\ IsPlainIdent(s[4])
       /\ OverrideTail(SubSeq(s, 5, Len(s)))

\* The invocation grammar from the usage string on.
UsageAndOverrides(s) ==
    /\ s # <<>>
    /\ s[1].k = "str"
    /\ OverrideTail(Tail(s))

\* The invocation grammar after the deriving keyword.
RECURSIVE TraitList(_)
TraitList(s) ==
    /\ s # <<>>
    /\ \/ s[1] = Comma /\ UsageAndOverrides(Tail(s))
       \/ IsPlainIdent(s[1]) /\ TraitList(Tail(s))

\* [pub] Name [deriving Trait*] , "usage" [, field: Type]* [,] <eof>
MatchesGrammar(s) ==
    LET u == Unmarked(s)
    IN /\ Len(u) >= 3
       /\ IsPlainIdent(u[1])
       /\ \/ u[2] = Comma /\ UsageAndOverrides(SubSeq(u, 3, Len(u)))
          \/ u[2] = Ident("deriving") /\ TraitList(SubSeq(u, 3, Len(u)))

\* An override entry whose key names no atom of the descriptor.
Unmatched(a) ==
    \A i \in DOMAIN doc.descs : doc.descs[i].atom # OverrideKey(a)

\* The fields struct_fields yields for a descriptor and an override map.
FieldsFor(descs, tys) ==
    [i \in DOMAIN descs |->
        mk_struct_field(key_to_struct_field(descs[i].atom.key),
                        field_ty(tys, descs[i].atom, descs[i]).ty)]

C6Invocation ==
    <<Ident("Args"), Comma, Ident("derivng"), Ident("Foo"), Comma,
      Str(UsageProg), Eof>>
C6NoSeparator ==
    <<Ident("Args"), Ident("derivng"), Ident("Foo"), Comma,
      Str(UsageProg), Eof>>

---------------------------------------------------------------------------
(* The claims.                                                             *)

\* C1: for every (repeats, arg, atom kind) the inferencer returns exactly
\* the type of the rule table, and nothing but the four field types: every
\* field struct_fields generated for an atom without override carries the
\* table's type for that atom.
C1_InferenceTable ==
    \A i \in DOMAIN fields :
        LET d == doc.descs[i]
        IN d.atom \notin DOMAIN types =>
             /\ fields[i].ty = InferenceTable(d.repeats, d.arg, d.atom.kind)
             /\ fields[i].ty \in {"bool", "String", "uint", "Vec<String>"}

C1_Witness ==
    /\ pc = "factory"
    /\ types = <<>>
    /\ Len(fields) = 2
    /\ doc.descs[1] = Desc(Command("add"), TRUE, "Zero")
    /\ fields[1].ty = "uint"
    /\ doc.descs[2] = Desc(Positional("<file>"), FALSE, "One")
    /\ fields[2].ty = "String"

\* C2: a successful invocation generates exactly one field per atom of the
\* validated descriptor, the i-th field named after the i-th atom, whatever
\* overrides were supplied.
C2_OneFieldPerAtom ==
    /\ pc = "fields" => Len(fields) = idx - 1
    /\ Succeeded =>
         /\ Len(result.items[1].fields) = Len(doc.descs)
         /\ \A i \in DOMAIN doc.descs :
              result.items[1].fields[i].name =
                  key_to_struct_field(doc.descs[i].atom.key)

C2_Witness ==
    /\ Succeeded
    /\ Len(doc.descs) = 2
    /\ Len(result.items[1].fields) = 2
    /\ types # <<>>

\* C3: the type of a generated field is the override when the override map
\* has the atom and the inferencer's result otherwise, and the inferencer
\* is never invoked for an atom that has an override.
C3_OverrideElseInferred ==
    /\ inferred \cap DOMAIN types = {}
    /\ Succeeded =>
         \A i \in DOMAIN doc.descs :
            LET d == doc.descs[i]
            IN /\ d.atom \in DOMAIN types =>
                    result.items[1].fields[i].ty = types[d.atom]
               /\ d.atom \notin DOMAIN types =>
                    /\ result.items[1].fields[i].ty =
                           InferenceTable(d.repeats, d.arg, d.atom.kind)
                    /\ d.atom \in inferred

C3_Witness ==
    /\ Succeeded
    /\ \E i, j \in DOMAIN doc.descs :
          /\ doc.descs[i].atom \in DOMAIN types
          /\ result.items[1].fields[i].ty = "int"
          /\ doc.descs[j].atom \notin DOMAIN types
          /\ doc.descs[j].atom \in inferred

\* C4: an override entry whose key matches no atom is accepted and has no
\* effect: once parse has returned Ok the invocation succeeds, no
\* diagnostic is emitted for the entry (the only diagnostics of such an
\* invocation are the host parser's for keywords written as identifiers),
\* and the generated fields are those generated from the override entries
\* that do match an atom.
C4_UnmatchedOverrideInert ==
    /\ (pc = "done" /\ ParsedOk) =>
          /\ Succeeded
          /\ \A i \in DOMAIN diags : diags[i] = "KeywordAsIdentifier"
          /\ NoKeywordAsIdent(Stream) => diags = <<>>
    /\ Succeeded =>
         result.items[1].fields =
             FieldsFor(doc.descs,
                       collect(SelectSeq(anns, LAMBDA a : ~Unmatched(a))))

C4_Witness ==
    /\ Succeeded
    /\ Len(doc.descs) = 2
    /\ \E i \in DOMAIN anns : Unmatched(anns[i])

\* C5: every failing invocation emits exactly one diagnostic and expand
\* returns the placeholder with nothing emitted; a successful invocation
\* emits no diagnostic.
C5_OneDiagnosticThenPlaceholder ==
    /\ (Finished /\ ~Succeeded) =>
         /\ Len(diags) = 1
         /\ result = Placeholder
         /\ its = <<>>
    /\ Succeeded => diags = <<>>

\* C6 as claimed: `Args, derivng Foo, "Usage: prog"` yields exactly one
\* diagnostic, of kind InvalidTraitKeyword, and no record.
C6_InvalidTraitKeyword ==
    (Finished /\ IsPrefix(Stream, C6Invocation)) =>
        /\ diags = <<"InvalidTraitKeyword">>
        /\ result = Placeholder
        /\ its = <<>>

\* C6 as amended: `Args, derivng Foo, "Usage: prog"` yields exactly one
\* diagnostic, of kind NotAStringLiteral, and no record (the separator after
\* the struct name ends the metadata); the InvalidTraitKeyword diagnostic,
\* again alone and without a record, is that of
\* `Args derivng Foo, "Usage: prog"`.
C6_NotAStringLiteral ==
    /\ (Finished /\ IsPrefix(Stream, C6Invocation)) =>
          /\ diags = <<"NotAStringLiteral">>
          /\ result = Placeholder
          /\ its = <<>>
    /\ (Finished /\ IsPrefix(Stream, C6NoSeparator)) =>
          /\ diags = <<"InvalidTraitKeyword">>
          /\ result = Placeholder
          /\ its = <<>>

C6_Witness ==
    /\ pc = "done"
    /\ Stream = SubSeq(C6Invocation, 1, 4)
    /\ diags = <<"NotAStringLiteral">>
    /\ result = Placeholder

\* C7: parse yields a ParsedRequest only for token streams that match the
\* invocation grammar, every override entry (the first included) preceded
\* by a comma, no token dropped unchecked.
C7_GrammarOnly == ParsedOk => MatchesGrammar(Stream)

\* C8: a generation-time success implies a factory-construction-time
\* success: the text embedded in the factory is the text the validator
\* accepted, the factory's re-validation never faults, and no factory is
\* built for a text the validator rejected.
C8_FactoryRevalidates ==
    /\ runtime # "fault"
    /\ \A i \in DOMAIN its :
          its[i].item = "impl" =>
              /\ its[i].full_doc = docstr
              /\ Validate(docstr).ok
    /\ Succeeded => result.items = its

C8_Witness ==
    /\ runtime = "ok"
    /\ Len(doc.descs) = 2
    /\ result.items[2].full_doc = UsageVerboseFile

\* C9: the capability list of the generated record is the decoding
\* capability followed by every trait written in the deriving clause, in
\* the order written, duplicates and the decoding trait itself included.
C9_DecodingCapability ==
    Succeeded =>
        /\ result.items[1].traits =
               <<"RustcDecodable">> \o WrittenTraits(Stream)
        /\ \E i \in DOMAIN result.items[1].traits :
               result.items[1].traits[i] = "RustcDecodable"

C9_Witness ==
    /\ Succeeded
    /\ WrittenTraits(Stream) = <<"RustcDecodable", "Foo">>
    /\ result.items[1].traits = <<"RustcDecodable", "RustcDecodable", "Foo">>

\* C10: the stages run in the fixed order and the first failing stage stops
\* the later ones: the validator is called at most once and only after the
\* struct metadata, the usage string and the overrides up to end of input
\* have parsed without a diagnostic; an invocation reports at most one
\* diagnostic, that of the stage following the completed ones, and nothing
\* is synthesised once a diagnostic has been reported.
C10_StageOrder ==
    /\ IsPrefix(stages, StageOrder)
    /\ validator_calls <= 1
    /\ validator_calls = 1 => (Len(stages) >= 4 /\ token = Eof)
    /\ validator_calls = 0 => Len(stages) <= 4
    /\ Len(diags) <= 1
    /\ diags # <<>> =>
          /\ pc \in {"ret_err", "done", "unwound"}
          /\ Len(stages) < Len(StageOrder)
          /\ StageOrder[Len(stages) + 1] \in StagesOf(diags[1])
          /\ its = <<>>
          /\ ~Succeeded
    /\ (Finished /\ ~Succeeded) => Len(diags) = 1
    /\ Succeeded => stages = StageOrder

=============================================================================
